---- MODULE Spec2Model ----
(***************************************************************************)
(* Count-min sketch with conservative update (src/src/lib.rs, the          *)
(* cms_define! macro).  One instance of the structure is modelled: its     *)
(* fields are the variables, its public methods are the actions.           *)
(*                                                                         *)
(* Scaling.  The counter type ($Counter: u8/u16/u32/u64) is modelled by    *)
(* the range 0..MAX with saturating addition, the 64-bit hash words by     *)
(* HashBits-bit words with wrapping arithmetic, and the modulus            *)
(* 0xffffffffffffffc5 (the largest prime below 2^64) by the largest prime  *)
(* below 2^HashBits.  SipHash-1-3 comes from an external crate; it is      *)
(* modelled by a small keyed mixing function over the same word width.     *)
(***************************************************************************)
EXTENDS Integers, Sequences, FiniteSets, TLC

(* ------------------------- scaled machine types ------------------------ *)
\* the counter type's maximum value, $Counter::max_value() (a 2-bit counter)
MAX == 3
\* width in bits of a hash word and of usize (u64, scaled down)
HashBits == 3

(* ------------------------------ bounds --------------------------------- *)
\* largest amount passed to add(key, value)
MaxAmount == 2
\* add(key, _) is cut off once MaxAdded has been added to key
MaxAdded == 4

\* the keys fed to the sketch
Keys == {1, 2}
Amounts == 1..MaxAmount

(* --------------------------- sizing inputs ----------------------------- *)
\* the <<capacity, probability (in percent), tolerance>> triples given to new()
SizingInputs == {<<1, 90, 1>>, <<2, 75, 1>>}
\* the triples given to new() and estimate_memory() when only sizing is studied
SizingCalls == {1, 2, 3, 4} \X {25, 50, 75, 90} \X {1, 2}
\* the triples given to new() when only the offset computation is studied
OffsetInputs == {<<1, 90, 1>>, <<2, 95, 1>>}
\* mem::size_of::<$Counter>() for the one-byte counter
CounterBytes == 1

(* ------------------------- machine arithmetic -------------------------- *)
RECURSIVE Pow2(_)
Pow2(n) == IF n = 0 THEN 1 ELSE 2 * Pow2(n - 1)

WordMod == Pow2(HashBits)
Word == 0..(WordMod - 1)

wrapping_add(a, b) == (a + b) % WordMod
wrapping_mul(a, b) == (a * b) % WordMod

\* bitwise and of two naturals
RECURSIVE BitAnd(_, _)
BitAnd(a, b) ==
    IF a = 0 \/ b = 0 THEN 0
    ELSE (IF a % 2 = 1 /\ b % 2 = 1 THEN 1 ELSE 0) + 2 * BitAnd(a \div 2, b \div 2)

\* mutant: the addition wraps around instead of saturating
wrapping_counter_add(a, b) == (a + b) % (MAX + 1)

\* $Counter::saturating_add
saturating_add(a, b) == IF a + b > MAX THEN MAX ELSE a + b

Min(S) == CHOOSE m \in S : \A x \in S : m <= x

IsPrime(p) == p >= 2 /\ \A d \in 2..(p - 1) : p % d # 0

\* 0xffffffffffffffc5 is the largest prime below 2^64
LARGE_PRIME == CHOOSE p \in Word : IsPrime(p) /\ \A q \in Word : IsPrime(q) => q <= p

(* ------------------------------ sizing --------------------------------- *)
\* usize::MAX (usize is as wide as a hash word)
UsizeMax == WordMod - 1

RECURSIVE next_power_of_two(_)
next_power_of_two(n) == IF n <= 1 THEN 1 ELSE 2 * next_power_of_two((n + 1) \div 2)

\* usize::checked_next_power_of_two; 0 stands for None
checked_next_power_of_two(n) ==
    LET p == next_power_of_two(n)
    IN  IF p <= UsizeMax THEN p ELSE 0

\* (2.0 / (tolerance / capacity)).round() as usize: round half away from
\* zero, the cast saturates at usize::MAX
rounded_width(capacity, tolerance) ==
    LET width == (4 * capacity + tolerance) \div (2 * tolerance)
    IN  IF width > UsizeMax THEN UsizeMax ELSE width

\* mutant: the width is not rounded up to a power of two
optimal_width_unrounded(capacity, tolerance) ==
    LET width == rounded_width(capacity, tolerance)
    IN  IF width > 2 THEN width ELSE 2

\* optimal_width; 0 stands for the panic of .expect("Width would be way too large")
optimal_width(capacity, tolerance) ==
    LET width == rounded_width(capacity, tolerance)
    IN  checked_next_power_of_two(IF width > 2 THEN width ELSE 2)

\* (ln(1 - p) / ln(0.5)) as usize, p given in percent:
\* the largest j with 2^j * (1 - p) <= 1
RECURSIVE Log2Inv(_, _)
Log2Inv(num, den) == IF 2 * num > den THEN 0 ELSE 1 + Log2Inv(2 * num, den)

optimal_k_num(probability) ==
    LET j == Log2Inv(100 - probability, 100)
    IN  IF j > 1 THEN j ELSE 1

\* mutant: the mask is the width itself
mask_of_width(width) == width

mask_of(width) == width - 1

(* ------------------------------ hashing -------------------------------- *)
\* sip_new(): a hasher keyed with two fresh random words; the pairs
\* <<rng.next_u64(), rng.next_u64()>> the model draws
Hashers == {<<0, 1>>, <<1, 1>>}

\* key.hash(sip); sip.finish() for the hasher keyed (k0, k1)
SipHash13(hasher, key) ==
    LET k0 == hasher[1]
        k1 == hasher[2]
    IN  ((2 * k0 + 1) * key + k1 * (key * key + 1) + k0 * k1 * 3) % WordMod

VARIABLES
    counters,   \* counters[k_i][column]
    offsets,    \* scratch: the offsets of the key of the last add
    hashers,    \* hashers[0], hashers[1]
    mask,
    k_num,
    reset_idx,  \* the decay cursor
    last,       \* the last call and what it returned
    added,      \* added[k]: amounts added to key k since construction, clear()
                \* or reset_next(); halved by reset()
    incs,       \* incs[k]: add(k, 1) calls since the last decay or clear()
    decay,      \* "none" | "reset" | "partial": decay since construction/clear()
    saturated,  \* a saturating_add was clipped since construction/clear()
    sweepBase,  \* counters at the start of the current window of reset_next() calls
    sweepFrom,  \* the decay cursor at the start of that window
    sweepLen,   \* consecutive reset_next() calls in the window, within 0..width
    sizing,     \* the last new()/estimate_memory() call and how it ended
    nexts,      \* reset_next() calls since construction or the last reset()
                \* or clear(), counted modulo the width
    naive       \* the counters of a sketch given the same adds that adds to
                \* every counter of the key; kept while decay = "none"

vars == <<counters, offsets, hashers, mask, k_num, reset_idx, last,
          added, incs, decay, saturated, sweepBase, sweepFrom, sweepLen, sizing, nexts, naive>>

width == mask + 1
Rows == 0..(k_num - 1)
Cols == 0..mask

\* mutant: the hash is used as the column without the mask
to_offset_unmasked(hash) == hash

\* hash as usize & self.mask
to_offset(hash) == BitAnd(hash, mask)

\* mutant: the hashers are not cloned, rows 0 and 1 hash the key on top of
\* what the previous add left behind
offset_uncloned(hashes, key, k_i) ==
    IF k_i < 2
    THEN LET hash == SipHash13(hashers[k_i], key + offsets[k_i])
         IN  [hashes |-> [hashes EXCEPT ![k_i] = hash],
              offset |-> to_offset(hash)]
    ELSE [hashes |-> hashes,
          offset |-> to_offset(wrapping_add(hashes[0],
                                            wrapping_mul(k_i, hashes[1]) % LARGE_PRIME))]

(* offset(&self, hashes, key, k_i): the column of key in row k_i; rows 0   *)
(* and 1 hash the key and cache the hash, later rows combine the cache.    *)
offset(hashes, key, k_i) ==
    IF k_i < 2
    THEN LET hash == SipHash13(hashers[k_i], key)
         IN  [hashes |-> [hashes EXCEPT ![k_i] = hash],
              offset |-> to_offset(hash)]
    ELSE [hashes |-> hashes,
          offset |-> to_offset(wrapping_add(hashes[0],
                                            wrapping_mul(k_i, hashes[1]) % LARGE_PRIME))]

\* the (0..k_num).map(|k_i| self.offset(&mut hashes, key, k_i)) pass
RECURSIVE OffsetPass(_, _, _, _)
OffsetPass(hashes, key, k_i, acc) ==
    IF k_i >= k_num THEN acc
    ELSE LET r == offset(hashes, key, k_i)
         IN  OffsetPass(r.hashes, key, k_i + 1, acc @@ (k_i :> r.offset))

\* let mut hashes = [0u64, 0u64]
ZeroHashes == (0 :> 0) @@ (1 :> 0)
KeyOffsets(key) == OffsetPass(ZeroHashes, key, 0, <<>>)

\* mutant: the first row's counter, no minimum taken
estimate_first_row(key) ==
    LET off == KeyOffsets(key)
    IN  counters[0][off[0]]

\* estimate(&self, key): the minimum over the rows
estimate(key) ==
    LET off == KeyOffsets(key)
    IN  Min({counters[k_i][off[k_i]] : k_i \in Rows})

\* mutant: .max() for .min()
AddLowestMax(off) ==
    LET cells == {counters[k_i][off[k_i]] : k_i \in Rows}
    IN  CHOOSE m \in cells : \A x \in cells : m >= x

\* add, first pass: the minimum of the key's counters
AddLowest(off) == Min({counters[k_i][off[k_i]] : k_i \in Rows})

\* mutant: the second pass stops at the first row tied for the minimum
AddCountersFirstOnly(off, lowest, value) ==
    LET first == CHOOSE k_i \in Rows :
                    /\ counters[k_i][off[k_i]] = lowest
                    /\ \A k_j \in Rows : counters[k_j][off[k_j]] = lowest => k_i <= k_j
    IN  [counters EXCEPT ![first][off[first]] = saturating_add(@, value)]

\* mutant: the second pass adds to every counter of the key
AddCountersAll(off, lowest, value) ==
    [k_i \in Rows |-> [counters[k_i] EXCEPT ![off[k_i]] = saturating_add(@, value)]]

\* mutant: the second pass goes by the offsets the previous add left in
\* self.offsets
AddCountersStale(off, lowest, value) ==
    [k_i \in Rows |->
        IF counters[k_i][offsets[k_i]] = lowest
        THEN [counters[k_i] EXCEPT ![offsets[k_i]] = saturating_add(@, value)]
        ELSE counters[k_i]]

\* add, second pass: the counters after the conservative update
AddCounters(off, lowest, value) ==
    [k_i \in Rows |->
        IF counters[k_i][off[k_i]] = lowest
        THEN [counters[k_i] EXCEPT ![off[k_i]] = saturating_add(@, value)]
        ELSE counters[k_i]]

\* mutant: only row 0 is zeroed
ClearCountersRow0 ==
    [k_i \in Rows |-> IF k_i = 0 THEN [c \in DOMAIN counters[k_i] |-> 0] ELSE counters[k_i]]

\* clear(): every counter = 0
ClearCounters == [k_i \in Rows |-> [c \in DOMAIN counters[k_i] |-> 0]]

\* mutant: the counter is divided by 4
halve_twice(v) == v \div 4

\* mutant: halving rounds up
halve_up(v) == (v + 1) \div 2

\* *counter /= 2
halve(v) == v \div 2

\* mutant: the row loop skips row 0
ResetCountersFrom1(m) ==
    [k_i \in DOMAIN m |-> IF k_i = 0 THEN m[k_i]
                                     ELSE [c \in DOMAIN m[k_i] |-> halve(m[k_i][c])]]

\* reset(): every counter of every row halved
ResetCounters(m) == [k_i \in DOMAIN m |-> [c \in DOMAIN m[k_i] |-> halve(m[k_i][c])]]

\* mutant: the row loop starts at row 1
ResetNextCountersFrom1(idx) ==
    [k_i \in Rows |-> IF k_i = 0 THEN counters[k_i]
                                 ELSE [counters[k_i] EXCEPT ![idx] = halve(@)]]

\* reset_next(): the counters of column idx halved
ResetNextCounters(idx) == [k_i \in Rows |-> [counters[k_i] EXCEPT ![idx] = halve(@)]]

\* mutant: the cursor does not wrap
next_reset_idx_nowrap(idx) == idx + 1

\* mutant: the cursor wraps at k_num, not at the width
next_reset_idx_rows(idx) == (idx + 1) % k_num

\* idx.wrapping_add(1) & self.mask
next_reset_idx(idx) == BitAnd(wrapping_add(idx, 1), mask)

\* a call: its name, its key, whether it returned a value and the value;
\* pre is, for clear(), the decay cursor and the largest counter before it,
\* for offset(), the hashes cache passed in and the row
Call(op, key, some, ret) ==
    [op |-> op, key |-> key, some |-> some, ret |-> ret, pre |-> <<0, 0>>]

\* mutant: the test is on the old cursor
reset_next_ret_idx(idx, next) ==
    IF idx # 0 THEN Call("reset_next", 0, TRUE, next) ELSE Call("reset_next", 0, FALSE, 0)

\* if next != 0 { Some(next) } else { None }
reset_next_ret(idx, next) ==
    IF next # 0 THEN Call("reset_next", 0, TRUE, next) ELSE Call("reset_next", 0, FALSE, 0)

MaxCounter ==
    LET cells == {counters[k_i][c] : k_i \in Rows, c \in Cols}
    IN  CHOOSE m \in cells : \A x \in cells : m >= x

ZeroCount == [k \in Keys |-> 0]
ZeroCounters == [k_i \in Rows |-> [c \in Cols |-> 0]]

\* the naive count-min update: the amount is added to every counter of the key
NaiveAdd(off, value) ==
    [k_i \in Rows |-> [naive[k_i] EXCEPT ![off[k_i]] = saturating_add(@, value)]]

\* the estimate the naive sketch gives
NaiveEstimate(key) ==
    LET off == KeyOffsets(key)
    IN  Min({naive[k_i][off[k_i]] : k_i \in Rows})
NoSweep ==
    /\ sweepBase' = [k_i \in Rows |-> [c \in Cols |-> 0]]
    /\ sweepFrom' = 0
    /\ sweepLen' = 0

\* a sizing call: new or estimate_memory, its arguments, "Ok" | "Err" |
\* "panic", and the value of an Ok(usize)
SizingCall(op, in, result, value) ==
    [op |-> op, in |-> in, result |-> result, value |-> value]

(* ------------------------------ actions -------------------------------- *)
New(capacity, probability, tolerance) ==
    LET w == optimal_width(capacity, tolerance)
        k == optimal_k_num(probability)
    IN  /\ w # 0
        /\ sizing = SizingCall("new", <<capacity, probability, tolerance>>, "Ok", 0)
        /\ counters = [k_i \in 0..(k - 1) |-> [c \in 0..(w - 1) |-> 0]]
        /\ offsets = [k_i \in 0..(k - 1) |-> 0]
        /\ hashers \in [0..1 -> Hashers]
        /\ mask = mask_of(w)
        /\ k_num = k
        /\ reset_idx = 0
        /\ last = Call("new", 0, FALSE, 0)
        /\ added = ZeroCount
        /\ incs = ZeroCount
        /\ decay = "none"
        /\ saturated = FALSE
        /\ sweepBase = [k_i \in 0..(k - 1) |-> [c \in 0..(w - 1) |-> 0]]
        /\ sweepFrom = 0
        /\ sweepLen = 0
        /\ nexts = 0
        /\ naive = [k_i \in 0..(k - 1) |-> [c \in 0..(w - 1) |-> 0]]

Init ==
    \E in \in SizingInputs : New(in[1], in[2], in[3])

Add(key, value) ==
    LET off == KeyOffsets(key)
        lowest == AddLowest(off)
    IN  /\ added[key] + value <= MaxAdded
        /\ offsets' = off
        /\ counters' = AddCounters(off, lowest, value)
        /\ last' = Call("add", key, FALSE, 0)
        /\ added' = [added EXCEPT ![key] = @ + value]
        /\ incs' = IF value = 1 THEN [incs EXCEPT ![key] = @ + 1] ELSE incs
        /\ saturated' = (saturated \/ lowest + value > MAX)
        /\ NoSweep
        /\ naive' = IF decay = "none" THEN NaiveAdd(off, value) ELSE naive
        /\ UNCHANGED <<hashers, mask, k_num, reset_idx, decay, sizing, nexts>>

\* increment(key) is self.add(key, 1)
Increment(key) == Add(key, 1)

Estimate(key) ==
    /\ last' = Call("estimate", key, TRUE, estimate(key))
    /\ NoSweep
    /\ UNCHANGED <<counters, offsets, hashers, mask, k_num, reset_idx,
                   added, incs, decay, saturated, sizing, nexts, naive>>

Clear ==
    /\ counters' = ClearCounters
    /\ reset_idx' = 0
    /\ hashers' \in [0..1 -> Hashers]
    /\ last' = [Call("clear", 0, FALSE, 0) EXCEPT
                   !.pre = <<reset_idx, MaxCounter>>]
    /\ added' = ZeroCount
    /\ incs' = ZeroCount
    /\ decay' = "none"
    /\ saturated' = FALSE
    /\ NoSweep
    /\ nexts' = 0
    /\ naive' = ZeroCounters
    /\ UNCHANGED <<offsets, mask, k_num, sizing>>

Reset ==
    /\ counters' = ResetCounters(counters)
    /\ reset_idx' = 0
    /\ last' = Call("reset", 0, FALSE, 0)
    /\ added' = [k \in Keys |-> added[k] \div 2]
    /\ incs' = ZeroCount
    /\ decay' = IF decay = "partial" THEN "partial" ELSE "reset"
    /\ NoSweep
    /\ nexts' = 0
    /\ naive' = ZeroCounters
    /\ UNCHANGED <<offsets, hashers, mask, k_num, saturated, sizing>>

ResetNext ==
    LET idx == reset_idx
        next == next_reset_idx(idx)
        fresh == sweepLen = 0 \/ sweepLen = width
    IN  /\ counters' = ResetNextCounters(idx)
        /\ reset_idx' = next
        /\ last' = reset_next_ret(idx, next)
        /\ added' = ZeroCount
        /\ incs' = ZeroCount
        /\ decay' = "partial"
        /\ sweepBase' = IF fresh THEN counters ELSE sweepBase
        /\ sweepFrom' = IF fresh THEN idx ELSE sweepFrom
        /\ sweepLen' = IF fresh THEN 1 ELSE sweepLen + 1
        /\ nexts' = (nexts + 1) % width
        /\ naive' = ZeroCounters
        /\ UNCHANGED <<offsets, hashers, mask, k_num, saturated, sizing>>

Next ==
    \/ \E key \in Keys, value \in Amounts : Add(key, value)
    \/ \E key \in Keys : Increment(key)
    \/ \E key \in Keys : Estimate(key)
    \/ Clear
    \/ Reset
    \/ ResetNext

Spec == Init /\ [][Next]_vars

(* -------------------- increments and full decay only ------------------- *)
\* any interleaving of increment(key) and reset(), no reset_next(), no clear()
AgingNext ==
    \/ \E key \in Keys : Increment(key)
    \/ Reset

AgingSpec == Init /\ [][AgingNext]_vars

(* ------------------- the offset computation on its own ----------------- *)
\* offset(&self, &mut hashes, key, k_i) called with any cache contents: the
\* base hashes of a key are arbitrary 64-bit words
OffsetCall(h0, h1, key, k_i) ==
    LET r == offset((0 :> h0) @@ (1 :> h1), key, k_i)
    IN  /\ last' = [Call("offset", key, TRUE, r.offset) EXCEPT !.pre = <<h0, h1, k_i>>]
        /\ UNCHANGED <<counters, offsets, hashers, mask, k_num, reset_idx,
                       added, incs, decay, saturated,
                       sweepBase, sweepFrom, sweepLen, sizing, nexts, naive>>

OffsetInit ==
    \E in \in OffsetInputs : New(in[1], in[2], in[3])

OffsetNext ==
    \E h0 \in Word, h1 \in Word, key \in Keys, k_i \in Rows : OffsetCall(h0, h1, key, k_i)

OffsetSpec == OffsetInit /\ [][OffsetNext]_vars

(* ------------------------ sizing on its own ---------------------------- *)
\* no instance yet and no sizing call made
NoInstance ==
    /\ sizing = SizingCall("none", <<0, 0, 0>>, "Ok", 0)
    /\ counters = <<>> /\ offsets = <<>> /\ hashers = <<>>
    /\ mask = 0 /\ k_num = 0 /\ reset_idx = 0
    /\ last = Call("none", 0, FALSE, 0)
    /\ added = ZeroCount /\ incs = ZeroCount
    /\ decay = "none" /\ saturated = FALSE
    /\ sweepBase = <<>> /\ sweepFrom = 0 /\ sweepLen = 0
    /\ nexts = 0 /\ naive = <<>>

\* new(capacity, probability, tolerance): optimal_width panics or the
\* instance is built and Ok(cms) returned
SizingNew(capacity, probability, tolerance) ==
    LET w == optimal_width(capacity, tolerance)
        k == optimal_k_num(probability)
        in == <<capacity, probability, tolerance>>
    IN  /\ sizing.result # "panic"
        /\ IF w = 0
           THEN /\ sizing' = SizingCall("new", in, "panic", 0)
                /\ UNCHANGED <<counters, offsets, hashers, mask, k_num, reset_idx,
                               last, added, incs, decay, saturated,
                               sweepBase, sweepFrom, sweepLen, nexts, naive>>
           ELSE /\ sizing' = SizingCall("new", in, "Ok", 0)
                /\ counters' = [k_i \in 0..(k - 1) |-> [c \in 0..(w - 1) |-> 0]]
                /\ offsets' = [k_i \in 0..(k - 1) |-> 0]
                /\ hashers' \in [0..1 -> Hashers]
                /\ mask' = mask_of(w)
                /\ k_num' = k
                /\ reset_idx' = 0
                /\ last' = Call("new", 0, FALSE, 0)
                /\ added' = ZeroCount
                /\ incs' = ZeroCount
                /\ decay' = "none"
                /\ saturated' = FALSE
                /\ sweepBase' = [k_i \in 0..(k - 1) |-> [c \in 0..(w - 1) |-> 0]]
                /\ sweepFrom' = 0
                /\ sweepLen' = 0
                /\ nexts' = 0
                /\ naive' = [k_i \in 0..(k - 1) |-> [c \in 0..(w - 1) |-> 0]]

\* estimate_memory(capacity, probability, tolerance): optimal_width panics,
\* or Ok(width * size_of::<$Counter>() * k_num); a product above usize::MAX
\* panics in a build with overflow checks and wraps in one without
EstimateMemory(capacity, probability, tolerance) ==
    LET w == optimal_width(capacity, tolerance)
        k == optimal_k_num(probability)
        in == <<capacity, probability, tolerance>>
        bytes == w * CounterBytes * k
    IN  /\ sizing.result # "panic"
        /\ \/ /\ w = 0
              /\ sizing' = SizingCall("estimate_memory", in, "panic", 0)
           \/ /\ w # 0 /\ bytes <= UsizeMax
              /\ sizing' = SizingCall("estimate_memory", in, "Ok", bytes)
           \/ /\ w # 0 /\ bytes > UsizeMax
              /\ sizing' \in {SizingCall("estimate_memory", in, "panic", 0),
                              SizingCall("estimate_memory", in, "Ok", bytes % WordMod)}
        /\ UNCHANGED <<counters, offsets, hashers, mask, k_num, reset_idx,
                       last, added, incs, decay, saturated,
                       sweepBase, sweepFrom, sweepLen, nexts, naive>>

SizingNext ==
    \/ \E in \in SizingCalls : SizingNew(in[1], in[2], in[3])
    \/ \E in \in SizingCalls : EstimateMemory(in[1], in[2], in[3])

SizingSpec == NoInstance /\ [][SizingNext]_vars

(* ------------------------------- claims -------------------------------- *)
\* every add since construction/clear() was a unit increment
UnitOnly == \A k \in Keys : incs[k] = added[k]
\* the counter of key in row k_i
Cell(key, k_i) == counters[k_i][KeyOffsets(key)[k_i]]
\* the rows in which keys j and k share a counter
Collide(j, k) == {k_i \in Rows : KeyOffsets(j)[k_i] = KeyOffsets(k)[k_i]}

\* no power of two within usize is at least max(2, the rounded width)
WidthUnrepresentable(in) ==
    LET want == (4 * in[1] + in[3]) \div (2 * in[3])
    IN  ~ \E e \in 1..(HashBits - 1) : Pow2(e) >= want

\* C11 (as claimed): when the column count cannot be rounded up to a power of
\* two that fits usize, new() and estimate_memory() return an Err value (no
\* panic) and new() builds no sketch.
C11_SizingFailureIsErr ==
    (sizing.op \in {"new", "estimate_memory"} /\ WidthUnrepresentable(sizing.in))
        => (sizing.result = "Err" /\ (sizing.op = "new" => counters = <<>>))

\* C1: after unit increments only (no decay, no clear, no clipped addition),
\* estimate(k) is at least the number of increment(k) calls, for every key k.
C1_IncrementNeverUnderestimates ==
    (decay = "none" /\ ~saturated /\ UnitOnly)
        => \A k \in Keys : estimate(k) >= added[k]

\* C1 witness: two keys were incremented, they share a counter in some row and
\* one of them is overestimated.
C1_Witness ==
    /\ decay = "none" /\ ~saturated /\ UnitOnly
    /\ \E j, k \in Keys :
          /\ j # k /\ added[j] >= 1 /\ added[k] >= 2
          /\ Collide(j, k) # {}
          /\ estimate(j) > added[j]

\* C2 (as claimed): after add(key, amount) calls with arbitrary amounts (no
\* decay, no clear, no clipped addition), estimate(k) is at least the sum of
\* the amounts added to k, for every key k.
C2_AddNeverUnderestimates ==
    (decay = "none" /\ ~saturated)
        => \A k \in Keys : estimate(k) >= added[k]

\* C3: no counter exceeds MAX, and a key incremented MAX times or more since
\* the last decay or clear has estimate MAX, whatever is added afterwards.
C3_SaturatesAtMax ==
    /\ \A k_i \in Rows : \A c \in Cols : counters[k_i][c] \in 0..MAX
    /\ \A k \in Keys : incs[k] >= MAX => estimate(k) = MAX

\* C3 witness: a key was incremented more than MAX times, the last addition
\* was clipped, and the other key was added to as well.
C3_Witness ==
    \E j, k \in Keys :
        /\ j # k /\ incs[k] > MAX /\ saturated /\ estimate(k) = MAX
        /\ added[j] >= 1 /\ last.op = "add"

\* C4: after unit increments only (no decay, no clear, no clipped addition), a
\* key that has a row whose counter no other incremented key maps to is
\* estimated exactly.
C4_ExactWithFreeRow ==
    (decay = "none" /\ ~saturated /\ UnitOnly)
        => \A k \in Keys :
              (\E k_i \in Rows :
                  \A j \in Keys \ {k} : added[j] > 0 => k_i \notin Collide(j, k))
                  => estimate(k) = added[k]

\* C4 witness: key k was incremented MAX times, another incremented key
\* shares some but not all of its counters, and k is estimated MAX exactly.
C4_Witness ==
    /\ decay = "none" /\ ~saturated /\ UnitOnly
    /\ \E j, k \in Keys :
          /\ j # k /\ added[j] >= 1 /\ added[k] = MAX
          /\ Collide(j, k) # {} /\ Collide(j, k) # Rows
          /\ estimate(k) = MAX

\* C5: reset() replaces every counter v by floor(v / 2), sets the decay cursor
\* to 0 and leaves hash keys, mask and row count alone: every key keeps its
\* offsets.
C5_ResetHalvesAll ==
    [][last'.op = "reset" =>
          /\ \A k_i \in Rows : \A c \in Cols :
                counters'[k_i][c] * 2 \in {counters[k_i][c], counters[k_i][c] - 1}
          /\ DOMAIN counters' = Rows
          /\ \A k_i \in Rows : DOMAIN counters'[k_i] = Cols
          /\ reset_idx' = 0
          /\ hashers' = hashers /\ mask' = mask /\ k_num' = k_num
          /\ \A k \in Keys : KeyOffsets(k)' = KeyOffsets(k)]_vars

\* C5 witness: a reset() has halved a counter that was 2 or more while the
\* decay cursor was part way through a sweep.
C5_Witness ==
    /\ last.op = "reset"
    /\ \E k_i \in Rows : \E c \in Cols : counters[k_i][c] >= 1
    /\ decay = "partial"

\* C6: width consecutive reset_next() calls, from any counters and any cursor
\* position, leave the counter matrix one reset() leaves.
C6_SweepEqualsReset ==
    sweepLen = width => counters = ResetCounters(sweepBase)

\* C6 witness: a full sweep that started at a non-zero cursor over a matrix
\* holding an odd and an even non-zero counter.
C6_Witness ==
    /\ sweepLen = width /\ sweepFrom # 0
    /\ \E k_i \in Rows : \E c \in Cols : sweepBase[k_i][c] = 3
    /\ \E k_i \in Rows : \E c \in Cols : sweepBase[k_i][c] = 2

\* C7: reset_next() returns Some(new cursor) when the new cursor is not 0 and
\* None exactly when the cursor wrapped to 0 (the column halved was width-1);
\* in a run of reset_next() calls started at cursor 0 the i-th call returns
\* None iff i is a multiple of width (sweepLen is i modulo width, in 1..width).
C7_ResetNextReturn ==
    /\ [][last'.op = "reset_next" =>
              /\ reset_idx' # 0 => (last'.some /\ last'.ret = reset_idx')
              /\ reset_idx' = 0 => ~last'.some
              /\ reset_idx' = 0 <=> reset_idx = width - 1]_vars
    /\ []((sweepLen >= 1 /\ sweepFrom = 0) => (~last.some <=> sweepLen = width))

\* C7 witness: the call that completes a sweep of four columns started at
\* cursor 0 has returned None.
C7_Witness ==
    /\ last.op = "reset_next" /\ ~last.some
    /\ sweepFrom = 0 /\ sweepLen = width /\ width = 4

\* C8: reset_next() halves the counters of the column the cursor pointed to,
\* one per row, and changes no other counter, nor hash keys or dimensions.
C8_ResetNextFrame ==
    [][last'.op = "reset_next" =>
          /\ DOMAIN counters' = Rows
          /\ \A k_i \in Rows :
                /\ DOMAIN counters'[k_i] = Cols
                /\ \A c \in Cols :
                      IF c = reset_idx
                      THEN counters'[k_i][c] * 2 \in
                              {counters[k_i][c], counters[k_i][c] - 1}
                      ELSE counters'[k_i][c] = counters[k_i][c]
          /\ hashers' = hashers /\ mask' = mask /\ k_num' = k_num]_vars

\* C8 witness: a first reset_next() whose column held a counter of 2 or more
\* in row 0 while another column held a non-zero counter.
C8_Witness ==
    /\ last.op = "reset_next" /\ sweepLen = 1
    /\ sweepBase[0][sweepFrom] >= 2
    /\ counters[0][sweepFrom] >= 1
    /\ \E k_i \in Rows : \E c \in Cols \ {sweepFrom} : counters[k_i][c] >= 1

\* C9: after clear() every counter and the decay cursor are 0, every key's
\* estimate is 0 under the new hash keys, and the dimensions are unchanged.
C9_ClearZeroes ==
    /\ [][last'.op = "clear" =>
              /\ DOMAIN counters' = Rows
              /\ \A k_i \in Rows : DOMAIN counters'[k_i] = Cols
              /\ mask' = mask /\ k_num' = k_num]_vars
    /\ [](last.op = "clear" =>
              /\ \A k_i \in Rows : \A c \in Cols : counters[k_i][c] = 0
              /\ reset_idx = 0
              /\ \A k \in Keys : estimate(k) = 0)

\* C9 witness: a clear() of a sketch that held a saturated counter, with the
\* decay cursor part way through a sweep.
C9_Witness ==
    /\ last.op = "clear"
    /\ last.pre[1] # 0 /\ last.pre[2] = MAX
    /\ \A k \in Keys : estimate(k) = 0

\* C10: estimate(key) returns the minimum of the key's counters over the rows
\* and changes nothing; an estimate(key) right after an estimate(key) returns
\* the same value.
C10_EstimateReadOnlyMin ==
    [][last'.op = "estimate" =>
          /\ last'.some
          /\ \A k_i \in Rows : last'.ret <= Cell(last'.key, k_i)
          /\ \E k_i \in Rows : last'.ret = Cell(last'.key, k_i)
          /\ UNCHANGED <<counters, offsets, hashers, mask, k_num, reset_idx>>
          /\ (last.op = "estimate" /\ last.key = last'.key) => last'.ret = last.ret]_vars

\* C10 witness: an estimate of a key whose first row's counter is above the
\* non-zero minimum.
C10_Witness ==
    /\ last.op = "estimate" /\ last.ret >= 1
    /\ Cell(last.key, 0) > last.ret
    /\ last.ret = estimate(last.key)

IsPow2(n) == \E e \in 0..HashBits : n = Pow2(e)

\* C12: in every reachable state the width (mask + 1, the length of every
\* row) is a power of two >= 2, there are k_num >= 1 rows, all rows have the
\* same length, and no operation changes the dimensions; every sizing that
\* does not fail yields such dimensions.
C12_Dimensions ==
    /\ [][/\ mask' = mask /\ k_num' = k_num
          /\ DOMAIN counters' = DOMAIN counters
          /\ \A k_i \in Rows : DOMAIN counters'[k_i] = DOMAIN counters[k_i]]_vars
    /\ [](/\ IsPow2(width) /\ width >= 2 /\ k_num >= 1
          /\ DOMAIN counters = Rows
          /\ \A k_i \in Rows : DOMAIN counters[k_i] = Cols
          /\ \A in \in SizingCalls :
                LET w == optimal_width(in[1], in[3])
                IN  w # 0 => (IsPow2(w) /\ w >= 2 /\ optimal_k_num(in[2]) >= 1))

C12_Witness ==
    /\ width = 2 /\ k_num = 3 /\ last.op = "reset_next"
    /\ saturated /\ reset_idx = 1

\* C13: every index the operations use is in range: the offsets of every
\* key and the scratch offsets are columns in 0..width-1, the decay cursor
\* is a column, the rows are 0..k_num-1 and there is at least one row, so
\* the minimum over the rows is taken over a non-empty set.
C13_IndicesInRange ==
    /\ Rows # {}
    /\ reset_idx \in Cols
    /\ DOMAIN offsets = Rows
    /\ \A k_i \in Rows : offsets[k_i] \in Cols
    /\ \A k \in Keys :
          /\ DOMAIN KeyOffsets(k) = Rows
          /\ \A k_i \in Rows : KeyOffsets(k)[k_i] \in DOMAIN counters[k_i]
          /\ {counters[k_i][KeyOffsets(k)[k_i]] : k_i \in Rows} # {}

\* a key whose row-0 hash exceeds the mask, the cursor on the last column
C13_Witness ==
    /\ k_num = 3 /\ reset_idx = mask /\ last.op = "add"
    /\ \E k \in Keys : SipHash13(hashers[0], k) > mask

\* C14: only clear() changes the hash state (hashers; mask and k_num never
\* change); add hashes its key to the offsets an estimate of that key in the
\* same hash state reads, before the add and after it.
C14_StableOffsets ==
    /\ [][/\ last'.op # "clear" =>
                (hashers' = hashers /\ mask' = mask /\ k_num' = k_num)
          /\ last'.op = "add" => offsets' = KeyOffsets(last'.key)]_vars
    /\ [](last.op = "add" => offsets = KeyOffsets(last.key))

\* an add of a key after a decay and an earlier add of the same key
C14_Witness ==
    /\ last.op = "add" /\ decay = "reset" /\ added[last.key] >= 2
    /\ offsets = KeyOffsets(last.key)
    /\ \E k_i \in Rows : offsets[k_i] # 0

\* C15: add(key, amount) takes lowest, the minimum of the key's counters,
\* from the counters before the call; afterwards exactly the key's counters
\* that equalled lowest hold min(old + amount, MAX), every other counter is
\* as before, and the decay cursor and the hash state are unchanged.
C15_AddFrame ==
    [][last'.op = "add" =>
          LET key == last'.key
              value == added'[key] - added[key]
              off == offsets'
              lowest == Min({counters[k_i][off[k_i]] : k_i \in Rows})
          IN  /\ value \in Amounts
              /\ off = KeyOffsets(key)
              /\ \A k_i \in Rows : \A c \in Cols :
                    counters'[k_i][c] =
                        IF c = off[k_i] /\ counters[k_i][c] = lowest
                        THEN (IF counters[k_i][c] + value > MAX
                              THEN MAX ELSE counters[k_i][c] + value)
                        ELSE counters[k_i][c]
              /\ reset_idx' = reset_idx /\ hashers' = hashers
              /\ mask' = mask /\ k_num' = k_num]_vars

\* after an add that left one of the key's counters alone: the key's
\* counters differ although the cursor has moved before
C15_Witness ==
    /\ last.op = "add" /\ reset_idx # 0
    /\ \E r1 \in Rows, r2 \in Rows : Cell(last.key, r1) > Cell(last.key, r2) + 1

\* C16: the decay cursor changes only as follows: reset_next() sets it to
\* (cursor + 1) mod width, reset() and clear() set it to 0, add/increment
\* and estimate leave it unchanged; so it always equals the number of
\* reset_next() calls since the last reset(), clear() or construction,
\* modulo the width.
C16_Cursor ==
    /\ [][/\ last'.op = "reset_next" => reset_idx' = (reset_idx + 1) % width
          /\ last'.op \in {"reset", "clear"} => reset_idx' = 0
          /\ last'.op \in {"add", "estimate"} => reset_idx' = reset_idx]_vars
    /\ [](reset_idx = nexts % width)

\* an estimate after three reset_next() calls on non-zero counters
C16_Witness ==
    /\ last.op = "estimate" /\ reset_idx = 3 /\ nexts = 3
    /\ MaxCounter >= 1

\* the offset of row k_i >= 2 with the modulus applied to the whole sum,
\* the sum taken exactly
SumModOffset(h0, h1, k_i) == BitAnd((h0 + k_i * h1) % LARGE_PRIME, mask)

\* the same with the sum and the product taken in wrapping arithmetic
WrappingSumModOffset(h0, h1, k_i) ==
    BitAnd(wrapping_add(h0, wrapping_mul(k_i, h1)) % LARGE_PRIME, mask)

\* C17 (as claimed): for every row k_i >= 2 the offset of a key is
\* ((h0 + k_i * h1) mod LARGE_PRIME) & mask, the modulus applied to the whole
\* sum (read exactly or in wrapping arithmetic); rows 0 and 1 use hash & mask
\* of their own keyed hash.
C17_SumModPrime ==
    last.op = "offset" =>
        LET h0 == last.pre[1]
            h1 == last.pre[2]
            k_i == last.pre[3]
        IN  IF k_i >= 2
            THEN last.ret \in {SumModOffset(h0, h1, k_i), WrappingSumModOffset(h0, h1, k_i)}
            ELSE last.ret = BitAnd(SipHash13(hashers[k_i], last.key), mask)

\* C18: for every key, estimate(key) right after reset() is floor(e / 2),
\* e being estimate(key) right before it; reset() never raises an estimate.
C18_ResetHalvesEstimate ==
    [][last'.op = "reset" =>
          \A k \in Keys :
              LET off == KeyOffsets(k)
                  before == estimate(k)
                  after == Min({counters'[k_i][off[k_i]] : k_i \in Rows})
              IN  /\ KeyOffsets(k)' = off /\ k_num' = k_num
                  /\ after = before \div 2
                  /\ after <= before]_vars

\* after a reset() that left one key at estimate 1 and another at estimate 0
\* with one of its counters still at 1
C18_Witness ==
    /\ last.op = "reset"
    /\ \E j \in Keys, k \in Keys :
          /\ estimate(j) = 1
          /\ estimate(k) = 0
          /\ \E k_i \in Rows : Cell(k, k_i) = 1

\* C19: given the same add/increment calls and the same offsets, no counter
\* of the conservative sketch exceeds the same counter of the naive sketch,
\* which adds the amount to all k_num counters of the key; so every key's
\* estimate is at most the naive estimate.
C19_BelowNaive ==
    decay = "none" =>
        /\ \A k_i \in Rows : \A c \in Cols : counters[k_i][c] <= naive[k_i][c]
        /\ \A k \in Keys : estimate(k) <= NaiveEstimate(k)

\* the conservative update has kept a counter and an estimate strictly below
\* the naive ones
C19_Witness ==
    /\ decay = "none" /\ last.op = "add"
    /\ \E k_i \in Rows : \E c \in Cols : counters[k_i][c] < naive[k_i][c]
    /\ \E k \in Keys : estimate(k) < NaiveEstimate(k)

\* C20: under any interleaving of increment(key) and reset() alone, as long
\* as no addition was clipped, estimate(k) >= a(k) for every key k, where
\* a(k) is 0 at first, a(k) + 1 after increment(k) and floor(a(k) / 2) after
\* reset() (added[k], when every add is an increment).
C20_AgedCount ==
    ~saturated => \A k \in Keys : estimate(k) >= added[k]

\* after a reset() and a later increment: one key's estimate equals its
\* aged count of 2 or more, the other key has been counted too
C20_Witness ==
    /\ decay = "reset" /\ ~saturated /\ last.op = "add"
    /\ \E j \in Keys, k \in Keys :
          /\ j # k /\ added[j] >= 1
          /\ added[k] >= 2 /\ estimate(k) = added[k]

====
